---- MODULE Spec2Model ----
(***************************************************************************)
(* A model of the chess rules engine, the game orchestrator and the search *)
(* engine of ChessProject (logic/types.py, moves.py, pieces.py, board.py,  *)
(* game.py, ai.py).                                                        *)
(*                                                                         *)
(* A board is the list of lists `field`: field[y][x], here a sequence of 8 *)
(* rows of 8 cells, rows and cells numbered from 1 (Python index + 1).     *)
(* A piece is a record (kind, player, is_moved); the empty cell is None.   *)
(* Generators are sequences, in the order the code yields.  An IndexError  *)
(* raised while a generator runs is the flag `exc` next to the prefix that *)
(* was yielded before it; a function that can raise returns "IndexError"   *)
(* in place of its value.                                                  *)
(***************************************************************************)
EXTENDS Integers, Sequences, FiniteSets, TLC

\* ------------------------------------------------------------ logic/types.py
N == 8

Players == <<"white", "black">>

PlayerData(p) ==
    IF p = "white"
    THEN [promotion_row |-> 0, pawn_start_row |-> 6, direction |-> -1]
    ELSE [promotion_row |-> 7, pawn_start_row |-> 1, direction |-> 1]

\* a turn that never passes to the other player
same_player(p) == p

opponent(p) == IF p = "white" THEN "black" ELSE "white"

Result(w, r) == [winner |-> w, end_reason |-> r]

NoResult == [winner |-> "none", end_reason |-> "none"]

\* ----------------------------------------------------------- logic/pieces.py
None == [kind |-> "None", player |-> "nobody", is_moved |-> FALSE]

Piece(k, p, m) == [kind |-> k, player |-> p, is_moved |-> m]

\* ------------------------------------------------------------ logic/board.py
EmptyField == [y \in 1..N |-> [x \in 1..N |-> None]]

\* a Python list of length 8 takes the indices -8..7, negative ones from the end
IndexOK(i) == i >= 0 - N /\ i < N

PyIndex(i) == IF i < 0 THEN i + N ELSE i

PosOK(pos) == IndexOK(pos[1]) /\ IndexOK(pos[2])

Get(b, pos) == b[PyIndex(pos[2]) + 1][PyIndex(pos[1]) + 1]

Set(b, pos, piece) ==
    [b EXCEPT ![PyIndex(pos[2]) + 1][PyIndex(pos[1]) + 1] = piece]

is_inside(pos) == 0 <= pos[1] /\ pos[1] < N /\ 0 <= pos[2] /\ pos[2] < N

\* the squares in the order of the row-major scan of iter_pieces
ScanOrder == [i \in 1..(N * N) |-> <<(i - 1) % N, (i - 1) \div N>>]

iter_pieces(b) == SelectSeq(ScanOrder, LAMBDA pos : Get(b, pos) # None)

iter_pieces_of(b, player) ==
    SelectSeq(ScanOrder, LAMBDA pos : Get(b, pos).player = player)

\* Board.__deepcopy__: every piece rebuilt from its class, player and is_moved
DeepCopy(b) ==
    [y \in 1..N |-> [x \in 1..N |->
        IF b[y][x] # None
        THEN Piece(b[y][x].kind, b[y][x].player, b[y][x].is_moved)
        ELSE None]]

add_start_pieces(b) ==
    LET back == <<"Rook", "Knight", "Bishop", "Queen", "King", "Bishop", "Knight", "Rook">>
    IN [y \in 1..N |-> [x \in 1..N |->
          CASE y = 1 -> Piece(back[x], "black", FALSE)
            [] y = 2 -> Piece("Pawn", "black", FALSE)
            [] y = 7 -> Piece("Pawn", "white", FALSE)
            [] y = 8 -> Piece(back[x], "white", FALSE)
            [] OTHER -> b[y][x]]]

initial == add_start_pieces(EmptyField)

\* ------------------------------------------------------------ logic/moves.py
NoPos == <<0 - 100, 0 - 100>>

Move(piece, start, dest) ==
    [type |-> "Move", piece |-> piece, start_position |-> start,
     destination |-> dest, promoted_to |-> None,
     rock |-> None, rook_start |-> NoPos, rook_destination |-> NoPos]

MoveWithPromotion(piece, start, dest, promoted) ==
    [type |-> "MoveWithPromotion", piece |-> piece, start_position |-> start,
     destination |-> dest, promoted_to |-> promoted,
     rock |-> None, rook_start |-> NoPos, rook_destination |-> NoPos]

MoveCastling(piece, start, dest, rock, rstart, rdest) ==
    [type |-> "MoveCastling", piece |-> piece, start_position |-> start,
     destination |-> dest, promoted_to |-> None,
     rock |-> rock, rook_start |-> rstart, rook_destination |-> rdest]

NoMove == Move(None, NoPos, NoPos)

\* the first statement of Move.execute indexes the board with the destination
ExecuteRaises(m) == ~PosOK(m.destination)

\* the piece object the move carries is placed and then flagged as moved
Moved(piece) == [piece EXCEPT !.is_moved = TRUE]

MoveExecute(b, m) ==
    Set(Set(b, m.destination, Moved(m.piece)), m.start_position, None)

\* a castling that leaves the rook where it is
execute_king_only(b, m) == MoveExecute(b, m)

execute(b, m) ==
    CASE m.type = "MoveWithPromotion" ->
            Set(MoveExecute(b, m), m.destination, m.promoted_to)
      [] m.type = "MoveCastling" ->
            Set(Set(MoveExecute(b, m), m.rook_destination, Moved(m.rock)),
                m.rook_start, None)
      [] OTHER -> MoveExecute(b, m)

\* deepcopy(move), executed once on the scratch board before it is yielded:
\* the pieces it carries are copies, already flagged as moved
CopyExecuted(m) ==
    [m EXCEPT !.piece = Moved(m.piece),
              !.rock = IF m.type = "MoveCastling" THEN Moved(m.rock) ELSE None]

\* ------------------------------------------- logic/pieces.py: move generation
KnightVectors ==
    << <<2, 1>>, <<2, -1>>, <<-2, 1>>, <<-2, -1>>,
       <<1, 2>>, <<1, -2>>, <<-1, 2>>, <<-1, -2>> >>

KingVectors ==
    << <<1, 1>>, <<1, -1>>, <<-1, 1>>, <<-1, -1>>,
       <<1, 0>>, <<-1, 0>>, <<0, 1>>, <<0, -1>> >>

BishopDirections == << <<1, 1>>, <<1, -1>>, <<-1, 1>>, <<-1, -1>> >>

RookDirections == << <<1, 0>>, <<-1, 0>>, <<0, 1>>, <<0, -1>> >>

QueenDirections ==
    << <<1, 1>>, <<1, -1>>, <<-1, 1>>, <<-1, -1>>,
       <<1, 0>>, <<-1, 0>>, <<0, 1>>, <<0, -1>> >>

\* the concatenation of F(1), ..., F(n): what a loop of `yield from` yields
RECURSIVE Chain(_, _, _)
Chain(F(_), i, n) == IF i > n THEN <<>> ELSE F(i) \o Chain(F, i + 1, n)

PawnMoves(x, y, b) ==
    LET self == Get(b, <<x, y>>)
        direction == PlayerData(self.player).direction
        promotion_row == PlayerData(self.player).promotion_row
        y1 == y + direction
        y2 == y + 2 * direction
        step(dest) ==
            IF y1 # promotion_row
            THEN Move(self, <<x, y>>, dest)
            ELSE MoveWithPromotion(self, <<x, y>>, dest, Piece("Queen", self.player, FALSE))
        forward ==
            IF is_inside(<<x, y1>>) /\ Get(b, <<x, y1>>) = None
            THEN <<step(<<x, y1>>)>> \o
                 (IF /\ ~self.is_moved
                     /\ y = PlayerData(self.player).pawn_start_row
                     /\ Get(b, <<x, y2>>) = None
                  THEN <<Move(self, <<x, y>>, <<x, y2>>)>>
                  ELSE <<>>)
            ELSE <<>>
        capture(dx) ==
            IF /\ is_inside(<<x + dx, y1>>)
               /\ Get(b, <<x + dx, y1>>) # None
               /\ Get(b, <<x + dx, y1>>).player # self.player
            THEN <<step(<<x + dx, y1>>)>>
            ELSE <<>>
    IN forward \o capture(-1) \o capture(1)

possible_moves_in_direction(x, y, dx, dy, b) ==
    LET self == Get(b, <<x, y>>)
        x1 == x + dx
        y1 == y + dy
    IN IF /\ is_inside(<<x1, y1>>)
          /\ \/ Get(b, <<x1, y1>>) = None
             \/ Get(b, <<x1, y1>>).player # self.player
       THEN <<Move(self, <<x1 - dx, y1 - dy>>, <<x1, y1>>)>>
       ELSE <<>>

DiscreteMoves(x, y, b, vectors) ==
    LET one(i) == possible_moves_in_direction(x, y, vectors[i][1], vectors[i][2], b)
    IN Chain(one, 1, Len(vectors))

KingMoves(x, y, b) ==
    LET self == Get(b, <<x, y>>)
        fig_to_the_left == Get(b, <<0, y>>)
        fig_to_the_right == Get(b, <<N - 1, y>>)
        left ==
            IF /\ ~self.is_moved
               /\ fig_to_the_left.kind = "Rook"
               /\ fig_to_the_left.player = self.player
               /\ \A xx \in 1..(x - 1) : Get(b, <<xx, y>>) = None
            THEN <<MoveCastling(self, <<x, y>>, <<x - 2, y>>,
                                fig_to_the_left, <<0, y>>, <<x - 1, y>>)>>
            ELSE <<>>
        right ==
            IF /\ ~self.is_moved
               /\ fig_to_the_right.kind = "Rook"
               /\ fig_to_the_right.player = self.player
               /\ \A xx \in (x + 1)..(N - 2) : Get(b, <<xx, y>>) = None
            THEN <<MoveCastling(self, <<x, y>>, <<x + 2, y>>,
                                fig_to_the_right, <<N - 1, y>>, <<x + 1, y>>)>>
            ELSE <<>>
    IN DiscreteMoves(x, y, b, KingVectors) \o left \o right

\* the while loop of PieceWithStraightMoves, from the cell (x, y) on
RECURSIVE Walk(_, _, _, _, _, _, _)
Walk(self, start_pos, x, y, dx, dy, b) ==
    IF ~is_inside(<<x, y>>) THEN <<>>
    ELSE IF Get(b, <<x, y>>) = None
         THEN <<Move(self, start_pos, <<x, y>>)>> \o
              Walk(self, start_pos, x + dx, y + dy, dx, dy, b)
         ELSE IF Get(b, <<x, y>>).player # self.player
              THEN <<Move(self, start_pos, <<x, y>>)>>
              ELSE <<>>

StraightMoves(x, y, b, directions) ==
    LET self == Get(b, <<x, y>>)
        one(i) == Walk(self, <<x, y>>, x + directions[i][1], y + directions[i][2],
                       directions[i][1], directions[i][2], b)
    IN Chain(one, 1, Len(directions))

\* Piece._possible_moves of the piece on (x, y): the pseudo-legal moves
PseudoMoves(x, y, b) ==
    LET kind == Get(b, <<x, y>>).kind
    IN CASE kind = "Pawn" -> PawnMoves(x, y, b)
         [] kind = "Knight" -> DiscreteMoves(x, y, b, KnightVectors)
         [] kind = "King" -> KingMoves(x, y, b)
         [] kind = "Bishop" -> StraightMoves(x, y, b, BishopDirections)
         [] kind = "Rook" -> StraightMoves(x, y, b, RookDirections)
         [] kind = "Queen" -> StraightMoves(x, y, b, QueenDirections)

\* a test that finds no king
never_king(piece, player) == FALSE

\* the test of the loop of Piece.is_check on what board[move.destination] holds
is_enemy_king(piece, player) ==
    piece # None /\ piece.kind = "King" /\ piece.player # player

\* Piece.is_check: True at the first pseudo-legal move that lands on an enemy
\* king; reading the board at a destination past the row raises
RECURSIVE IsCheckLoop(_, _, _, _)
IsCheckLoop(moves, i, b, player) ==
    IF i > Len(moves) THEN "False"
    ELSE IF ~PosOK(moves[i].destination) THEN "IndexError"
    ELSE IF is_enemy_king(Get(b, moves[i].destination), player) THEN "True"
    ELSE IsCheckLoop(moves, i + 1, b, player)

is_check(x, y, b) ==
    IsCheckLoop(PseudoMoves(x, y, b), 1, b, Get(b, <<x, y>>).player)

\* a loop that returns at the first answer other than "False" that F gives
\* along the sequence, or dflt at its end
RECURSIVE FirstNot(_, _, _, _)
FirstNot(F(_), seq, i, dflt) ==
    IF i > Len(seq) THEN dflt
    ELSE LET r == F(seq[i])
         IN IF r # "False" THEN r ELSE FirstNot(F, seq, i + 1, dflt)

\* Board.is_in_check
is_in_check(b, player) ==
    LET one(pos) == is_check(pos[1], pos[2], b)
    IN FirstNot(one, iter_pieces_of(b, opponent(player)), 1, "False")

\* `not v` and `v and w` for values that may stand for a raise
Not(v) == IF v = "True" THEN "False" ELSE IF v = "False" THEN "True" ELSE v

AndThen(v, w) == IF v = "True" THEN w ELSE v

\* a filter that yields every pseudo-legal move that can be executed
YieldsUnchecked(move, b, player) ==
    IF ExecuteRaises(move) THEN "IndexError" ELSE "True"

\* the body of the loop of Piece.possible_moves for one pseudo-legal move: is
\* the move yielded, on a copy of the board and a copy of the move
Yields(move, b, player) ==
    IF ExecuteRaises(move) THEN "IndexError"
    ELSE Not(is_in_check(execute(DeepCopy(b), move), player))

\* Piece.possible_moves of the piece on (x, y): the legal moves it yields, in
\* order, and whether the generator ended by raising
RECURSIVE Filter(_, _, _, _)
RECURSIVE FilterStep(_, _, _, _, _)
Filter(moves, i, b, player) ==
    IF i > Len(moves) THEN [moves |-> <<>>, exc |-> FALSE]
    ELSE FilterStep(Yields(moves[i], b, player), moves, i, b, player)

FilterStep(yields, moves, i, b, player) ==
    IF yields = "IndexError" THEN [moves |-> <<>>, exc |-> TRUE]
    ELSE LET rest == Filter(moves, i + 1, b, player)
         IN IF yields = "True"
            THEN [moves |-> <<CopyExecuted(moves[i])>> \o rest.moves,
                  exc |-> rest.exc]
            ELSE rest

possible_moves(x, y, b) ==
    Filter(PseudoMoves(x, y, b), 1, b, Get(b, <<x, y>>).player)

\* Piece.has_possible_move: any() stops the generator at the first move it
\* yields
has_possible_move(x, y, b) ==
    LET player == Get(b, <<x, y>>).player
        one(move) == Yields(move, b, player)
    IN FirstNot(one, PseudoMoves(x, y, b), 1, "False")

\* the loop shared by is_in_checkmate and is_in_stalemate
NoPieceCanMove(b, player) ==
    LET one(pos) == has_possible_move(pos[1], pos[2], b)
    IN Not(FirstNot(one, iter_pieces_of(b, player), 1, "False"))

is_in_checkmate(b, player) ==
    AndThen(is_in_check(b, player), NoPieceCanMove(b, player))

is_in_stalemate(b, player) ==
    AndThen(Not(is_in_check(b, player)), NoPieceCanMove(b, player))

\* what stands for check_winner raising IndexError instead of returning
RaisedResult == [winner |-> "none", end_reason |-> "IndexError"]

\* `if v: return found`, else go on with `otherwise`
Decide(v, found, otherwise) ==
    IF v = "IndexError" THEN RaisedResult
    ELSE IF v = "True" THEN found ELSE otherwise

\* Board.check_winner: a Result, NoResult (Python None) or RaisedResult
RECURSIVE WinnerFrom(_, _)
WinnerFrom(b, i) ==
    IF i > Len(Players) THEN NoResult
    ELSE Decide(is_in_checkmate(b, Players[i]),
                Result(opponent(Players[i]), "checkmate"),
                Decide(is_in_stalemate(b, Players[i]),
                       Result("none", "stalemate"),
                       WinnerFrom(b, i + 1)))

\* a check that never finds the game over
no_winner(b) == NoResult

check_winner(b) == WinnerFrom(b, 1)

\* ------------------------------------- what a query does to the board given
\* A pseudo-legal move carries piece objects of the board it was generated
\* on: `self`, and for a castling the rook read from the corner.  piece_of and
\* rock_of are the squares of that board whose piece objects the move that
\* is executed carries, NoPos for an object of its own.  deepcopy(move) copies
\* the pieces with the move, so the copy carries no object of the board
\* a generator that executes the move it was given, not a copy of it
same_move(m) == [move |-> m, piece_of |-> m.start_position, rock_of |-> m.rook_start]

deepcopy_move(m) == [move |-> m, piece_of |-> NoPos, rock_of |-> NoPos]

\* `is_moved = True` on the piece object that stands on pos
Flag(b, pos) == IF pos = NoPos THEN b ELSE Set(b, pos, Moved(Get(b, pos)))

\* one turn of the loop of Piece.possible_moves, seen from the board given:
\* Board.__deepcopy__ builds a new field of new pieces, so the assignments
\* that execute makes to new_board do not reach it; the flags that execute
\* sets on the pieces the move carries do.  A raise comes before any flag
Flagged(b, executed) ==
    IF ExecuteRaises(executed.move) THEN b
    ELSE IF executed.move.type = "MoveCastling"
    THEN Flag(Flag(b, executed.piece_of), executed.rock_of)
    ELSE Flag(b, executed.piece_of)

TryMove(b, m) == Flagged(b, deepcopy_move(m))

\* how far a generator of legal moves is consumed: to its end, to the first
\* move it yields, or to the first move it yields onto a given square
Whole == NoPos

FirstYield == <<0 - 200, 0 - 200>>

\* what a call leaves: the board it was given, as it is afterwards, and
\* the answer of the call
Left(b, answer) == [board |-> b, answer |-> answer]

\* Piece.possible_moves consumed that far: the answer is "True" if it ended
\* at a move it yielded, "False" at its end, "IndexError" if it raised
RECURSIVE Tried(_, _, _, _, _)
RECURSIVE TriedStep(_, _, _, _, _, _)
Tried(moves, i, b, player, until) ==
    IF i > Len(moves) THEN Left(b, "False")
    ELSE TriedStep(Yields(moves[i], b, player), moves, i, b, player, until)

TriedStep(yields, moves, i, b, player, until) ==
    IF yields = "IndexError" THEN Left(b, "IndexError")
    ELSE IF yields = "True" /\ until \in {FirstYield, moves[i].destination}
    THEN Left(TryMove(b, moves[i]), "True")
    ELSE Tried(moves, i + 1, TryMove(b, moves[i]), player, until)

after_possible_moves(x, y, b, until) ==
    Tried(PseudoMoves(x, y, b), 1, b, Get(b, <<x, y>>).player, until)

\* the loop shared by is_in_checkmate and is_in_stalemate, which ends at the
\* first piece that any() finds a move for: the answer is "True" if there is
\* one
RECURSIVE AfterHasPossibleMove(_, _, _)
RECURSIVE AfterPiece(_, _, _)
AfterHasPossibleMove(pieces, i, b) ==
    IF i > Len(pieces) THEN Left(b, "False")
    ELSE AfterPiece(after_possible_moves(pieces[i][1], pieces[i][2], b, FirstYield),
                    pieces, i)

AfterPiece(tried, pieces, i) ==
    IF tried.answer # "False" THEN tried
    ELSE AfterHasPossibleMove(pieces, i + 1, tried.board)

NoneCanMove(looped) == Left(looped.board, Not(looped.answer))

\* Board.is_in_checkmate and Board.is_in_stalemate: the loop runs if
\* is_in_check, which executes nothing, answers as the function wants
AfterInCheck(check, wanted, b, player) ==
    IF check = wanted
    THEN NoneCanMove(AfterHasPossibleMove(iter_pieces_of(b, player), 1, b))
    ELSE Left(b, IF check = "IndexError" THEN check ELSE "False")

after_is_in_checkmate(b, player) ==
    AfterInCheck(is_in_check(b, player), "True", b, player)

after_is_in_stalemate(b, player) ==
    AfterInCheck(is_in_check(b, player), "False", b, player)

\* the board after Board.check_winner, which returns or raises at the first
\* answer other than False
RECURSIVE AfterWinnerFrom(_, _)
RECURSIVE AfterCheckmate(_, _)
RECURSIVE AfterStalemate(_, _)
AfterWinnerFrom(b, i) ==
    IF i > Len(Players) THEN b
    ELSE AfterCheckmate(after_is_in_checkmate(b, Players[i]), i)

AfterCheckmate(asked, i) ==
    IF asked.answer # "False" THEN asked.board
    ELSE AfterStalemate(after_is_in_stalemate(asked.board, Players[i]), i)

AfterStalemate(asked, i) ==
    IF asked.answer # "False" THEN asked.board
    ELSE AfterWinnerFrom(asked.board, i + 1)

after_check_winner(b) == AfterWinnerFrom(b, 1)

\* the board after ChessAI._order_moves, which consumes the generators of the
\* player's pieces whole, up to the first that raises
RECURSIVE AfterOrderMoves(_, _, _)
RECURSIVE AfterGenerator(_, _, _)
AfterOrderMoves(pieces, i, b) ==
    IF i > Len(pieces) THEN b
    ELSE AfterGenerator(after_possible_moves(pieces[i][1], pieces[i][2], b, Whole),
                        pieces, i)

AfterGenerator(tried, pieces, i) ==
    IF tried.answer = "IndexError" THEN tried.board
    ELSE AfterOrderMoves(pieces, i + 1, tried.board)

after_order_moves(b, player) == AfterOrderMoves(iter_pieces_of(b, player), 1, b)

\* --------------------------------------------------------------- logic/ai.py
\* float("inf"): above every score the evaluation can give
Inf == 1000000

\* what stands for _search or _evaluate_board raising IndexError
Raised == Inf + 1

Max(a, c) == IF a >= c THEN a ELSE c

piece_values(kind) ==
    CASE kind = "King" -> 1000
      [] kind = "Queen" -> 9
      [] kind = "Rook" -> 5
      [] kind = "Bishop" -> 3
      [] kind = "Knight" -> 3
      [] kind = "Pawn" -> 1

RECURSIVE Material(_, _, _, _)
Material(b, squares, i, me) ==
    IF i > Len(squares) THEN 0
    ELSE LET piece == Get(b, squares[i])
         IN (IF piece.player = me
             THEN piece_values(piece.kind)
             ELSE 0 - piece_values(piece.kind))
            + Material(b, squares, i + 1, me)

\* ChessAI._evaluate_board for the engine of player `me`; game_winner is what
\* self.game.board.check_winner() gives: the board of the game the engine is
\* bound to, which no search changes, not the board b under evaluation
evaluate_board(b, me, game_winner) ==
    LET value == Material(b, iter_pieces(b), 1, me)
    IN IF game_winner = RaisedResult THEN Raised
       ELSE IF game_winner # NoResult
            THEN (IF game_winner.winner = me THEN 10000 ELSE 0 - 10000)
            ELSE value

\* ChessAI._order_moves: the legal moves of every piece of the player, the
\* captures first; the lists are built in full, so a raise loses them all
RECURSIVE Collect(_, _, _)
RECURSIVE Extend(_, _, _, _)
Collect(b, squares, i) ==
    IF i > Len(squares) THEN [moves |-> <<>>, exc |-> FALSE]
    ELSE Extend(possible_moves(squares[i][1], squares[i][2], b), b, squares, i)

Extend(gen, b, squares, i) ==
    IF gen.exc THEN [moves |-> <<>>, exc |-> TRUE]
    ELSE LET rest == Collect(b, squares, i + 1)
         IN [moves |-> gen.moves \o rest.moves, exc |-> rest.exc]

CapturesFirst(all, b) ==
    LET capture_moves == SelectSeq(all.moves, LAMBDA m : Get(b, m.destination) # None)
        non_capture_moves == SelectSeq(all.moves, LAMBDA m : Get(b, m.destination) = None)
    IN IF all.exc THEN [moves |-> <<>>, exc |-> TRUE]
       ELSE [moves |-> capture_moves \o non_capture_moves, exc |-> FALSE]

order_moves(b, player) ==
    CapturesFirst(Collect(b, iter_pieces_of(b, player), 1), b)

\* the negation of a score; a raise stays a raise
Neg(v) == IF v = Raised THEN Raised ELSE 0 - v

\* ChessAI._search and its loop over the ordered moves, from the i-th on
RECURSIVE search(_, _, _, _, _, _, _)
RECURSIVE SearchLoop(_, _, _, _, _, _, _, _, _)
RECURSIVE SearchCut(_, _, _, _, _, _, _, _, _, _)
search(b, player, depth, alpha, beta, me, game_winner) ==
    IF depth = 0 THEN evaluate_board(b, me, game_winner)
    ELSE SearchLoop(order_moves(b, player), 1, b, player, depth, alpha, beta,
                    me, game_winner)

SearchLoop(ordered, i, b, player, depth, alpha, beta, me, game_winner) ==
    IF ordered.exc THEN Raised
    ELSE IF i > Len(ordered.moves) THEN alpha
    ELSE SearchCut(Neg(search(execute(DeepCopy(b), ordered.moves[i]),
                              opponent(player), depth - 1,
                              0 - beta, 0 - alpha, me, game_winner)),
                   ordered, i, b, player, depth, alpha, beta, me, game_winner)

SearchCut(score, ordered, i, b, player, depth, alpha, beta, me, game_winner) ==
    IF score = Raised THEN Raised
    ELSE IF Max(alpha, score) >= beta THEN Max(alpha, score)
    ELSE SearchLoop(ordered, i + 1, b, player, depth, Max(alpha, score), beta,
                    me, game_winner)

\* ------------------------------------------------------------------- bounds
\* moves executed on the board of one game, by the players and by the engine
MaxPlies == 2

\* distinct addresses a scratch board of the search root can get
NumAddr == 6

\* the addresses of an allocator that hands the scratch boards of the search
\* root two blocks in turn
FewAddr == 2

\* moves after which the players of an opening make no further move
MaxOpening == 5

\* get_best_move calls made on one engine outside a game
MaxSearches == 2

\* the deepest search asked of get_best_move outside a game
MaxDepth == 3

\* -------------------------------------------------------------------- state
VARIABLES
    board,            \* game.board
    current_player,   \* game.current_player
    ai,               \* game.ai is not None
    ai_player,        \* game.ai.player
    addresses,        \* how many addresses the allocator has for scratch boards
    table,            \* game.ai.transposition_table
    stored,           \* the position whose score each key of the table holds
    pc,               \* "idle", "search" (inside get_best_move), "over", "raised"
    outcome,          \* how the last call ended
    result,           \* the Result the last move_piece returned, or NoResult
    plies,            \* moves executed on game.board so far
    call_board,       \* the board, the player and the arguments when the
    call_player,      \*   last move_piece call was made
    call_start,
    call_end,
    mid_board,        \* the board after the caller's own move was executed
    ai_called,        \* get_best_move was called during the last move_piece
    s_from,           \* who called get_best_move: "game" or "direct"
    s_depth,          \* the locals of get_best_move and of its generator
    s_moves,
    s_i,
    s_alpha,
    best_move,
    best_score,
    prev_key,         \* key of the scratch board of the previous iteration
    returned,         \* what the last direct get_best_move call returned
    searches          \* direct get_best_move calls that returned

vars == <<board, current_player, ai, ai_player, addresses, table, stored, pc,
          outcome, result,
          plies, call_board, call_player, call_start, call_end, mid_board,
          ai_called, s_from, s_depth, s_moves, s_i, s_alpha, best_move,
          best_score, prev_key, returned, searches>>

game_vars == <<board, current_player, plies, call_board, call_player,
               call_start, call_end, mid_board, ai_called, result>>

\* what of the game a call of the engine has no assignment to
call_vars == <<current_player, plies, call_board, call_player, call_start,
               call_end, mid_board, ai_called, result>>

search_vars == <<s_from, s_depth, s_moves, s_i, s_alpha, best_move,
                 best_score, prev_key>>

EmptyTable == [k \in {} |-> 0]

\* what the manual arrangement editor builds: each entry <<pos, kind, player>>
\* is one click that puts a new, unmoved piece on the square
RECURSIVE Arrange(_, _)
Arrange(b, clicks) ==
    IF clicks = <<>> THEN b
    ELSE Arrange(Set(b, clicks[1][1], Piece(clicks[1][2], clicks[1][3], FALSE)),
                 Tail(clicks))

\* ------------------------------------------------------------ logic/game.py
\* the start and end squares tried on a board: every occupied square and two
\* fixed ones as start; as end the destinations of the piece's pseudo-legal
\* moves and the two fixed squares, or one square where the start is refused
Probes == {<<0, 7>>, <<3, 4>>}

Starts(b) == {pos \in {ScanOrder[i] : i \in 1..(N * N)} : Get(b, pos) # None} \cup Probes

Destinations(moves) == {moves[i].destination : i \in 1..Len(moves)}

Ends(b, start_pos, player) ==
    IF Get(b, start_pos).player # player THEN {<<3, 4>>}
    ELSE Destinations(PseudoMoves(start_pos[1], start_pos[2], b)) \cup Probes

\* the three ValueErrors of move_piece, told apart by their messages
NoPieceAtSquare == "ValueError: No piece at start position"

WrongTurn == "ValueError: It's not your turn"

IllegalMove == "ValueError: Invalid move"

\* the call ends by raising: nothing of the game is assigned
Raise(kind) ==
    /\ pc' = "raised"
    /\ outcome' = kind

\* the head of get_best_move and the first next() of its generator, which
\* orders the moves of the engine's own player on the live board
StartSearch(ordered, depth, from) ==
    IF \/ depth > 0 /\ ordered.exc
       \/ depth = 0 /\ evaluate_board(board, ai_player, check_winner(board)) = Raised
    THEN /\ Raise("IndexError")
         /\ UNCHANGED search_vars
    ELSE /\ pc' = "search" /\ outcome' = "pending"
         /\ s_from' = from /\ s_depth' = depth
         \* at depth 0 the generator evaluates the board and yields nothing
         /\ s_moves' = IF depth = 0 THEN <<>> ELSE ordered.moves
         /\ s_i' = 1 /\ s_alpha' = 0 - Inf
         /\ best_move' = NoMove /\ best_score' = 0 - Inf /\ prev_key' = 0

\* the for loop of move_piece over the moves the generator yields: the index
\* of the first one that ends on end_pos, 0 if the loop runs to its end
RECURSIVE FindMove(_, _, _)
FindMove(moves, i, end_pos) ==
    IF i > Len(moves) THEN 0
    ELSE IF moves[i].destination = end_pos THEN i
    ELSE FindMove(moves, i + 1, end_pos)

\* move_piece from move.execute(self.board) on, up to the return, the raise or
\* the call of get_best_move
ExecuteMove(move, tried) ==
    \E board1 \in {execute(tried, move)} :
    \E end_of_the_game \in {check_winner(board1)} :
    \E checked \in {after_check_winner(board1)} :
       /\ mid_board' = board1
       /\ plies' = plies + 1
       /\ IF end_of_the_game = RaisedResult
          THEN /\ Raise("IndexError")
               /\ board' = checked
               /\ ai_called' = FALSE
               /\ UNCHANGED <<current_player, result, search_vars>>
          ELSE IF end_of_the_game # NoResult
          THEN /\ pc' = "over"
               /\ outcome' = "result"
               /\ result' = end_of_the_game
               /\ board' = checked
               /\ ai_called' = FALSE
               /\ UNCHANGED <<current_player, search_vars>>
          ELSE /\ current_player' = opponent(current_player)
               /\ result' = NoResult
               /\ IF ai
                  THEN /\ ai_called' = TRUE
                       /\ board' = after_order_moves(checked, ai_player)
                       /\ StartSearch(order_moves(board1, ai_player), 2, "game")
                  ELSE /\ pc' = "idle"
                       /\ outcome' = "ok"
                       /\ board' = checked
                       /\ ai_called' = FALSE
                       /\ UNCHANGED search_vars

\* the call raises before anything is executed on the board of the game,
\* which is then as the generator of the legal moves, if it ran, has left it
Refuse(kind, tried) ==
    /\ Raise(kind)
    /\ board' = tried
    /\ ai_called' = FALSE
    /\ UNCHANGED <<current_player, plies, mid_board, result, search_vars>>

\* what move_piece can draw from piece.possible_moves, which it calls only
\* for a piece of the player to move
Generated(piece, start_pos) ==
    IF piece.player = current_player
    THEN possible_moves(start_pos[1], start_pos[2], board)
    ELSE [moves |-> <<>>, exc |-> FALSE]

\* the board of the game once the loop of move_piece over that generator has
\* ended: at the first move onto end_pos, at the end or at a raise
GeneratedOn(piece, start_pos, end_pos) ==
    IF piece.player = current_player
    THEN after_possible_moves(start_pos[1], start_pos[2], board, end_pos).board
    ELSE board

\* ChessGame.move_piece(start_pos, end_pos), for every end_pos tried
MovePiece(start_pos) ==
    /\ pc = "idle"
    /\ \E piece \in {Get(board, start_pos)} :
       \E moves \in {Generated(piece, start_pos)} :
       \E end_pos \in Ends(board, start_pos, current_player) :
       \E found \in {FindMove(moves.moves, 1, end_pos)} :
       \E tried \in {GeneratedOn(piece, start_pos, end_pos)} :
          /\ call_board' = board /\ call_player' = current_player
          /\ call_start' = start_pos /\ call_end' = end_pos
          /\ UNCHANGED <<ai, ai_player, addresses, table, stored, returned, searches>>
          /\ IF piece = None THEN Refuse(NoPieceAtSquare, tried)
             ELSE IF piece.player # current_player THEN Refuse(WrongTurn, tried)
             ELSE IF found = 0
             THEN Refuse(IF moves.exc THEN "IndexError" ELSE IllegalMove, tried)
             ELSE ExecuteMove(moves.moves[found], tried)

\* ChessAI._hash_board of a scratch board of the root loop: hash(str(board)),
\* and Board defines no __str__, so the string holds the address of the
\* object.  The allocator gives an address no board had before, as long as
\* there is one (addresses are numbered as they come into use), or the
\* address of an earlier scratch board, but not that of the previous
\* iteration, which is still alive
Fresh == IF Cardinality(DOMAIN table) < addresses
         THEN {Cardinality(DOMAIN table) + 1} ELSE {}

hash_board == (DOMAIN table \ {prev_key}) \cup Fresh

\* one iteration of the loop of _iter_possible_moves_in_depth, with the body
\* of the loop of get_best_move that consumes what it yields.  On a hit the
\* score is the one stored under the key; otherwise it is searched for
Score(board_key, move) ==
    IF board_key \in DOMAIN table THEN table[board_key]
    ELSE Neg(search(execute(DeepCopy(board), move), opponent(ai_player),
                    s_depth - 1, 0 - Inf, 0 - s_alpha, ai_player,
                    check_winner(board)))

SearchStep ==
    /\ pc = "search"
    /\ s_i <= Len(s_moves)
    /\ \E board_key \in hash_board :
       \E score \in {Score(board_key, s_moves[s_i])} :
          \* a score that is searched for is evaluated at the leaves, and
          \* each evaluation calls check_winner on the board of the game
          /\ board' = IF board_key \in DOMAIN table THEN board
                       ELSE after_check_winner(board)
          /\ IF score = Raised
             THEN /\ Raise("IndexError")
                  /\ UNCHANGED <<table, stored, search_vars>>
             ELSE /\ table' = [k \in DOMAIN table \cup {board_key} |->
                                  IF k = board_key THEN score ELSE table[k]]
                  /\ stored' = [k \in DOMAIN table \cup {board_key} |->
                                   IF k \in DOMAIN table THEN stored[k]
                                   ELSE execute(DeepCopy(board), s_moves[s_i])]
                  /\ prev_key' = board_key
                  /\ IF score > best_score
                     THEN best_move' = s_moves[s_i] /\ best_score' = score
                     ELSE UNCHANGED <<best_move, best_score>>
                  /\ s_alpha' = Max(s_alpha, score)
                  /\ s_i' = IF Max(s_alpha, score) >= Inf
                            THEN Len(s_moves) + 1 ELSE s_i + 1
                  /\ UNCHANGED <<pc, outcome, s_from, s_depth, s_moves>>
    /\ UNCHANGED <<call_vars, ai, ai_player, addresses, returned, searches>>

\* the rest of ChessGame.move_piece, once get_best_move has returned
AIReply ==
    /\ pc = "search"
    /\ s_from = "game"
    /\ s_i > Len(s_moves)
    /\ UNCHANGED <<ai, ai_player, addresses, table, stored, returned, searches, search_vars,
                   call_board, call_player, call_start, call_end, mid_board,
                   ai_called>>
    /\ IF best_move = NoMove
       THEN \* None has no attribute execute
            /\ Raise("AttributeError")
            /\ UNCHANGED <<board, current_player, plies, result>>
       ELSE \E board2 \in {execute(board, best_move)} :
            \E end_of_the_game \in {check_winner(board2)} :
               /\ board' = after_check_winner(board2)
               /\ plies' = plies + 1
               /\ IF end_of_the_game = RaisedResult
                  THEN /\ Raise("IndexError")
                       /\ UNCHANGED <<current_player, result>>
                  ELSE IF end_of_the_game # NoResult
                  THEN /\ pc' = "over"
                       /\ outcome' = "result"
                       /\ result' = end_of_the_game
                       /\ UNCHANGED current_player
                  ELSE /\ pc' = "idle"
                       /\ outcome' = "ok"
                       /\ current_player' = opponent(current_player)
                       /\ UNCHANGED result

\* ChessAI.get_best_move(depth), called on the engine of a game that has one
GetBestMove(depth) ==
    /\ pc = "idle"
    /\ ai
    /\ searches < MaxSearches
    /\ StartSearch(order_moves(board, ai_player), depth, "direct")
    /\ board' = IF depth = 0 THEN after_check_winner(board)
                 ELSE after_order_moves(board, ai_player)
    /\ UNCHANGED <<call_vars, ai, ai_player, addresses, table, stored, returned, searches>>

\* get_best_move returns best_move to its caller
ReturnBestMove ==
    /\ pc = "search"
    /\ s_from = "direct"
    /\ s_i > Len(s_moves)
    /\ pc' = "idle"
    /\ outcome' = "returned"
    /\ returned' = best_move
    /\ searches' = searches + 1
    /\ UNCHANGED <<game_vars, ai, ai_player, addresses, table, stored, search_vars>>

\* ---------------------------------------------------------- ui/window.py
\* list(self.game.board.possible_moves(*tile_pos)): Board.possible_moves of an
\* occupied square, consumed whole
ShowMoves(pos) ==
    /\ pc = "idle"
    /\ Get(board, pos) # None
    /\ board' = after_possible_moves(pos[1], pos[2], board, Whole).board
    /\ IF possible_moves(pos[1], pos[2], board).exc
       THEN Raise("IndexError")
       ELSE pc' = pc /\ outcome' = "listed"
    /\ UNCHANGED <<call_vars, ai, ai_player, addresses, table, stored, returned, searches,
                   search_vars>>

\* the questions the board answers about a player, and check_winner
Questions == {"is_in_check", "is_in_checkmate", "is_in_stalemate", "check_winner"}

Answer(question, b, player) ==
    CASE question = "is_in_check" -> is_in_check(b, player)
      [] question = "is_in_checkmate" -> is_in_checkmate(b, player)
      [] question = "is_in_stalemate" -> is_in_stalemate(b, player)
      [] question = "check_winner" ->
            IF check_winner(b) = RaisedResult THEN "IndexError" ELSE "Result"

Answered(question, b, player) ==
    CASE question = "is_in_check" -> b
      [] question = "is_in_checkmate" -> after_is_in_checkmate(b, player).board
      [] question = "is_in_stalemate" -> after_is_in_stalemate(b, player).board
      [] question = "check_winner" -> after_check_winner(b)

\* Board.is_in_check, is_in_checkmate, is_in_stalemate and check_winner,
\* called on the board of the game
Ask(question, player) ==
    /\ pc = "idle"
    /\ board' = Answered(question, board, player)
    /\ IF Answer(question, board, player) = "IndexError"
       THEN Raise("IndexError")
       ELSE pc' = pc /\ outcome' = "answered"
    /\ UNCHANGED <<call_vars, ai, ai_player, addresses, table, stored, returned, searches,
                   search_vars>>

\* ------------------------------------------------------------ specifications
\* boards set up in the manual arrangement editor
\* a black king in the corner against king and two pawns: white can promote
\* with mate, stalemate the king or play on
PawnEnding ==
    Arrange(EmptyField, << <<<<0, 0>>, "King", "black">>,
                           <<<<0, 2>>, "King", "white">>,
                           <<<<2, 2>>, "Pawn", "white">>,
                           <<<<3, 1>>, "Pawn", "white">> >>)

\* a white king put on g1 next to a rook on h1
CastledKing ==
    Arrange(EmptyField, << <<<<0, 0>>, "King", "black">>,
                           <<<<6, 7>>, "King", "white">>,
                           <<<<7, 7>>, "Rook", "white">> >>)

\* a white king put on b1 next to a rook on a1
KingNextToRook ==
    Arrange(EmptyField, << <<<<4, 0>>, "King", "black">>,
                           <<<<1, 7>>, "King", "white">>,
                           <<<<0, 7>>, "Rook", "white">> >>)

\* both kings on their e-file squares; white has a rook on a1 and one on h2,
\* black a rook on h8
Castling ==
    Arrange(EmptyField, << <<<<4, 0>>, "King", "black">>,
                           <<<<7, 0>>, "Rook", "black">>,
                           <<<<4, 7>>, "King", "white">>,
                           <<<<0, 7>>, "Rook", "white">>,
                           <<<<7, 6>>, "Rook", "white">> >>)

\* a black king mated twice over, by a knight and a bishop that black rooks
\* pin to the white king once it steps to g5; the white king stands on h4
PinnedAttackers ==
    Arrange(EmptyField, << <<<<7, 0>>, "King", "black">>,
                           <<<<6, 0>>, "Rook", "black">>,
                           <<<<5, 0>>, "Rook", "black">>,
                           <<<<7, 1>>, "Rook", "black">>,
                           <<<<0, 3>>, "Rook", "black">>,
                           <<<<4, 5>>, "Knight", "black">>,
                           <<<<7, 4>>, "King", "white">>,
                           <<<<6, 2>>, "Knight", "white">>,
                           <<<<4, 3>>, "Bishop", "white">> >>)

StartGames ==
    {[board |-> PawnEnding, ai |-> TRUE],
     [board |-> PawnEnding, ai |-> FALSE],
     [board |-> CastledKing, ai |-> FALSE],
     [board |-> Castling, ai |-> FALSE],
     [board |-> PinnedAttackers, ai |-> FALSE]}

\* a black pawn that can take a queen nothing defends
QueenEnPrise ==
    Arrange(EmptyField, << <<<<0, 3>>, "King", "black">>,
                           <<<<3, 3>>, "Pawn", "black">>,
                           <<<<2, 4>>, "Queen", "white">>,
                           <<<<7, 7>>, "King", "white">> >>)

\* a black king with one legal move against king and rook
RookEnding ==
    Arrange(EmptyField, << <<<<0, 0>>, "King", "black">>,
                           <<<<1, 2>>, "King", "white">>,
                           <<<<3, 1>>, "Rook", "white">> >>)

SearchBoards == {QueenEnPrise, RookEnding}

InitCommon ==
    /\ ai_player = "black"
    /\ table = EmptyTable
    /\ stored = EmptyTable
    /\ pc = "idle"
    /\ outcome = "none"
    /\ result = NoResult
    /\ plies = 0
    /\ call_board = board
    /\ call_player = "white"
    /\ call_start = NoPos
    /\ call_end = NoPos
    /\ mid_board = board
    /\ ai_called = FALSE
    /\ s_from = "game"
    /\ s_depth = 0
    /\ s_moves = <<>>
    /\ s_i = 1
    /\ s_alpha = 0 - Inf
    /\ best_move = NoMove
    /\ best_score = 0 - Inf
    /\ prev_key = 0
    /\ returned = NoMove
    /\ searches = 0

\* ChessGame.__init__ on a board arranged by the caller
Init ==
    /\ \E g \in StartGames : board = g.board /\ ai = g.ai
    /\ current_player = "white"
    /\ addresses = NumAddr
    /\ InitCommon

Next ==
    \/ /\ plies < MaxPlies
       /\ \E start_pos \in Starts(board) : MovePiece(start_pos)
    \/ SearchStep
    \/ AIReply

Spec == Init /\ [][Next]_vars

\* a game with the engine bound, whose get_best_move is called directly
InitSearch ==
    /\ board \in SearchBoards
    /\ ai = TRUE
    /\ current_player = "white"
    /\ addresses = NumAddr
    /\ InitCommon

NextSearch ==
    \/ \E depth \in 0..MaxDepth : GetBestMove(depth)
    \/ SearchStep
    \/ ReturnBestMove

SpecSearch == InitSearch /\ [][NextSearch]_vars

\* a game on an arranged board, with every call that reads its board: the
\* game is played, or its engine is called directly, and between the calls
\* the legal moves are listed and the questions asked
CallGames ==
    {[board |-> PawnEnding, ai |-> TRUE],
     [board |-> CastledKing, ai |-> FALSE],
     [board |-> KingNextToRook, ai |-> FALSE],
     [board |-> Castling, ai |-> FALSE],
     [board |-> RookEnding, ai |-> TRUE]}

InitCalls ==
    /\ \E g \in CallGames : board = g.board /\ ai = g.ai
    /\ current_player = "white"
    /\ addresses = NumAddr
    /\ InitCommon

NextCalls ==
    \/ /\ plies < MaxPlies /\ searches = 0
       /\ \E start_pos \in Starts(board) : MovePiece(start_pos)
    \/ SearchStep
    \/ AIReply
    \/ /\ plies = 0
       /\ \E depth \in 0..MaxDepth : GetBestMove(depth)
    \/ ReturnBestMove
    \/ /\ plies < MaxPlies
       /\ \E pos \in Starts(board) : ShowMoves(pos)
    \/ /\ plies < MaxPlies
       /\ \E question \in Questions : \E player \in {"white", "black"} :
             Ask(question, player)

SpecCalls == InitCalls /\ [][NextCalls]_vars

\* a game from the standard initial position, with and without the engine,
\* in which the players move their kings and their queens, white its e-pawn
\* and black its f-pawn
OpeningStarts(b) ==
    {pos \in Starts(b) :
        \/ Get(b, pos).kind \in {"King", "Queen"}
        \/ Get(b, pos).kind = "Pawn" /\
              pos[1] = (IF Get(b, pos).player = "white" THEN 4 ELSE 5)}

InitOpening ==
    /\ board = initial
    /\ ai \in BOOLEAN
    /\ current_player = "white"
    /\ addresses = FewAddr
    /\ InitCommon

NextOpening ==
    \/ /\ plies < MaxOpening
       /\ \E start_pos \in OpeningStarts(board) : MovePiece(start_pos)
    \/ SearchStep
    \/ AIReply

SpecOpening == InitOpening /\ [][NextOpening]_vars

\* ------------------------------------------------------------------ claims
Squares == {ScanOrder[i] : i \in 1..(N * N)}

PiecesOn(b) == {pos \in Squares : Get(b, pos) # None}

SeqRange(seq) == {seq[i] : i \in 1..Len(seq)}

LegalMoves(b, pos) == SeqRange(possible_moves(pos[1], pos[2], b).moves)

\* the last move_piece call executed the caller's move: every execution
\* changes the board, and a call that refuses leaves it as it was
CallerMoved ==
    /\ call_start # NoPos
    /\ outcome \notin {NoPieceAtSquare, WrongTurn, IllegalMove}
    /\ ~(outcome = "IndexError" /\ board = call_board)

\* the last move_piece call returned after the engine's reply was executed
AIReplied == ai_called /\ outcome \in {"ok", "result"}

\* C1: every move that possible_moves yields for a piece on the board of the
\* game leaves, once executed, the mover's own king out of check; so after a
\* move_piece that executed the caller's move the caller is not in check,
\* and after the engine's reply the engine's player is not in check
C1_LegalMovesLeaveNoCheck ==
    /\ \A pos \in PiecesOn(board) : \A m \in LegalMoves(board, pos) :
          is_in_check(execute(board, m), Get(board, pos).player) = "False"
    /\ CallerMoved => is_in_check(mid_board, call_player) = "False"
    /\ AIReplied => is_in_check(board, ai_player) = "False"

\* the engine has replied to a move of a player whose king had a pseudo-legal
\* move that possible_moves did not yield
C1_Witness ==
    /\ AIReplied
    /\ outcome = "ok"
    /\ \E pos \in PiecesOn(call_board) :
          /\ Get(call_board, pos).player = call_player
          /\ Len(possible_moves(pos[1], pos[2], call_board).moves)
                < Len(PseudoMoves(pos[1], pos[2], call_board))

\* a failing call leaves the game as it found it and asks nothing of the engine
Untouched == board = call_board /\ current_player = call_player /\ ~ai_called

\* C2: move_piece fails with NoPieceAtSquare on an empty start square, with
\* WrongTurn on a piece of the player not to move, with IllegalMove when no
\* legal move of the piece ends on the end square; each time the board and
\* the player to move stay as they were and the engine is not called
C2_ErrorsAndFrame ==
    call_start # NoPos =>
       LET piece == Get(call_board, call_start)
       IN /\ piece = None => outcome = NoPieceAtSquare /\ Untouched
          /\ (piece # None /\ piece.player # call_player) =>
                outcome = WrongTurn /\ Untouched
          /\ ( /\ piece # None
               /\ piece.player = call_player
               /\ FindMove(possible_moves(call_start[1], call_start[2],
                                          call_board).moves, 1, call_end) = 0 ) =>
                outcome = IllegalMove /\ Untouched

\* C3: without an engine, a move_piece that executed a move either returns
\* the non-empty check_winner of the new board and leaves the turn with the
\* mover, or returns nothing and passes the turn; the movers alternate,
\* white first
C3_TurnsAlternate ==
    ~ai =>
       /\ outcome = "result" =>
             /\ result # NoResult
             /\ result = check_winner(mid_board)
             /\ current_player = call_player
       /\ outcome = "ok" =>
             /\ result = NoResult
             /\ check_winner(mid_board) = NoResult
             /\ current_player # call_player
       /\ outcome \in {"ok", "result"} =>
             call_player = (IF plies % 2 = 1 THEN "white" ELSE "black")

\* black has answered a move of white in a game without an engine
C3_Witness ==
    ~ai /\ outcome = "ok" /\ plies = 2 /\ call_player = "black"

\* C4: with the engine bound to black, get_best_move is called only on a
\* board where black has a legal move; when the caller's move leaves black
\* without one, check_winner is non-empty and move_piece returns it without
\* calling the engine
C4_EngineOnlyWithMoves ==
    ai =>
       /\ ai_called => NoPieceCanMove(mid_board, "black") = "False"
       /\ (CallerMoved /\ NoPieceCanMove(mid_board, "black") = "True") =>
             /\ outcome = "result"
             /\ ~ai_called
             /\ result # NoResult
             /\ result = check_winner(mid_board)

\* white's move left black without a legal move and the call returned the
\* result at once
C4_Witness ==
    /\ ai
    /\ CallerMoved
    /\ outcome = "result"
    /\ ~ai_called
    /\ NoPieceCanMove(mid_board, "black") = "True"

\* the legal moves of a player, as get_best_move orders them
LegalOf(b, player) == SeqRange(order_moves(b, player).moves)

\* C5: on a board where the engine's player has a legal move, get_best_move
\* called with a depth of at least 1 returns a move, not None, and the move is
\* one of the legal moves of that player on that board
C5_BestMoveIsLegal ==
    ( /\ outcome = "returned"
      /\ s_depth >= 1
      /\ NoPieceCanMove(board, ai_player) = "False" ) =>
       /\ returned # NoMove
       /\ returned \in LegalOf(board, ai_player)

\* C6: on a board where a player is in check and none of its pieces has a
\* legal move, check_winner returns checkmate with the opponent of that
\* player as winner, whichever colour the player has
C6_CheckmateNamesAttacker ==
    \A D \in {"white", "black"} :
       ( /\ is_in_check(board, D) = "True"
         /\ NoPieceCanMove(board, D) = "True" ) =>
          check_winner(board) = Result(opponent(D), "checkmate")

\* the squares of row y strictly between files x1 and x2
Between(x1, x2, y) ==
    {<<x, y>> : x \in {x \in 0..(N - 1) : (x1 < x /\ x < x2) \/ (x2 < x /\ x < x1)}}

\* C7: a king has a castling move among its pseudo-legal moves only if the
\* king has not moved, the piece on the a-file or h-file square of its row is
\* a rook of its own that has not moved either, and the squares between the
\* two are empty
C7_CastlingNeedsUnmovedRook ==
    \A pos \in PiecesOn(board) :
       Get(board, pos).kind = "King" =>
          \A m \in SeqRange(PseudoMoves(pos[1], pos[2], board)) :
             m.type = "MoveCastling" =>
                /\ ~Get(board, pos).is_moved
                /\ m.rook_start \in {<<0, pos[2]>>, <<N - 1, pos[2]>>}
                /\ Get(board, m.rook_start).kind = "Rook"
                /\ Get(board, m.rook_start).player = Get(board, pos).player
                /\ ~Get(board, m.rook_start).is_moved
                /\ \A sq \in Between(pos[1], m.rook_start[1], pos[2]) :
                      Get(board, sq) = None

\* the board a castling is to leave: the king two files towards the rook, the
\* rook on the square the king passed over, both flagged as moved, the two
\* squares they came from empty
BackRank(player) == IF player = "white" THEN N - 1 ELSE 0

RookFile(side) == IF side = "queen" THEN 0 ELSE N - 1

Towards(side) == IF side = "queen" THEN 0 - 1 ELSE 1

Castled(b, player, side) ==
    LET y == BackRank(player)
        cleared == Set(Set(b, <<4, y>>, None), <<RookFile(side), y>>, None)
    IN Set(Set(cleared, <<4 + 2 * Towards(side), y>>, Piece("King", player, TRUE)),
           <<4 + Towards(side), y>>, Piece("Rook", player, TRUE))

CanCastle(b, player, side) ==
    LET y == BackRank(player)
    IN /\ Get(b, <<4, y>>) = Piece("King", player, FALSE)
       /\ Get(b, <<RookFile(side), y>>) = Piece("Rook", player, FALSE)
       /\ \A sq \in Between(4, RookFile(side), y) : Get(b, sq) = None
       /\ is_in_check(Castled(b, player, side), player) = "False"

\* C8: an unmoved king on the e-file of its back rank, with an unmoved rook
\* of its own on the a-file or the h-file of that rank, nothing between them
\* and no check on the king once castled, has the castling among its legal
\* moves; executing it puts the king two files towards the rook and the rook
\* on the square the king passed, empties the two squares they came from and
\* flags both pieces as moved
C8_CastlingOfferedAndExecuted ==
    \A player \in {"white", "black"} : \A side \in {"queen", "king"} :
       CanCastle(board, player, side) =>
          \E m \in LegalMoves(board, <<4, BackRank(player)>>) :
             /\ m.type = "MoveCastling"
             /\ m.destination = <<4 + 2 * Towards(side), BackRank(player)>>
             /\ execute(board, m) = Castled(board, player, side)

\* white has castled queen-side in a move_piece call that returned nothing
C8_Witness ==
    /\ outcome = "ok"
    /\ call_player = "white"
    /\ call_start = <<4, 7>>
    /\ call_end = <<2, 7>>
    /\ CanCastle(call_board, "white", "queen")
    /\ board = Castled(call_board, "white", "queen")

\* the capturing moves among the legal moves of a player, in move order
Captures(b, player) ==
    SelectSeq(order_moves(b, player).moves, LAMBDA m : Get(b, m.destination) # None)

\* the player has one capturing legal move, it takes a queen, and the
\* opponent has no legal move that takes back on that square
FreeQueenCapture(b, player) ==
    /\ ~order_moves(b, player).exc
    /\ Len(Captures(b, player)) = 1
    /\ Get(b, Captures(b, player)[1].destination).kind = "Queen"
    /\ \A m \in LegalOf(execute(b, Captures(b, player)[1]), opponent(player)) :
          m.destination # Captures(b, player)[1].destination

\* C9: get_best_move(1), on a board where the engine's player has exactly one
\* capturing legal move, which takes an undefended queen, and no other
\* capture, returns that capturing move
C9_TakesFreeQueen ==
    ( /\ outcome = "returned"
      /\ s_depth = 1
      /\ FreeQueenCapture(board, ai_player) ) =>
       returned = Captures(board, ai_player)[1]

\* an unpruned, full-width minimax in negamax form: the same evaluation at
\* depth 0, the same move order, the value of a node the best of the negated
\* values of its children, minus infinity where there is none
RECURSIVE Minimax(_, _, _, _, _)
RECURSIVE MinimaxLoop(_, _, _, _, _, _, _, _)
RECURSIVE MinimaxTake(_, _, _, _, _, _, _, _, _)
Minimax(b, player, depth, me, game_winner) ==
    IF depth = 0 THEN evaluate_board(b, me, game_winner)
    ELSE MinimaxLoop(order_moves(b, player), 1, b, player, depth, 0 - Inf,
                     me, game_winner)

MinimaxLoop(ordered, i, b, player, depth, best, me, game_winner) ==
    IF ordered.exc THEN Raised
    ELSE IF i > Len(ordered.moves) THEN best
    ELSE MinimaxTake(Neg(Minimax(execute(DeepCopy(b), ordered.moves[i]),
                                 opponent(player), depth - 1, me, game_winner)),
                     ordered, i, b, player, depth, best, me, game_winner)

MinimaxTake(score, ordered, i, b, player, depth, best, me, game_winner) ==
    IF score = Raised THEN Raised
    ELSE MinimaxLoop(ordered, i + 1, b, player, depth, Max(best, score),
                     me, game_winner)

\* the scores of the root moves under minimax, and the first move whose score
\* is above those of all the moves before it and not below any after it
RootScores(b, player, depth, me, game_winner) ==
    [i \in 1..Len(order_moves(b, player).moves) |->
        Neg(Minimax(execute(DeepCopy(b), order_moves(b, player).moves[i]),
                    opponent(player), depth - 1, me, game_winner))]

RECURSIVE FirstBest(_, _, _, _)
FirstBest(scores, i, best_i, best) ==
    IF i > Len(scores) THEN best_i
    ELSE IF scores[i] > best THEN FirstBest(scores, i + 1, i, scores[i])
    ELSE FirstBest(scores, i + 1, best_i, best)

Pick(moves, i) == IF i = 0 THEN NoMove ELSE moves[i]

MinimaxBest(b, player, depth, me, game_winner) ==
    IF depth = 0 THEN NoMove
    ELSE Pick(order_moves(b, player).moves,
              FirstBest(RootScores(b, player, depth, me, game_winner), 1, 0, 0 - Inf))

\* C10: whatever the cache of the engine holds from earlier get_best_move
\* calls, the move get_best_move returns for a position and a depth is the
\* move of the unpruned minimax, first seen kept on ties, and the score of
\* _search over the full window is the minimax score
C10_SameAsMinimax ==
    outcome = "returned" =>
       /\ returned = MinimaxBest(board, ai_player, s_depth, ai_player,
                                 check_winner(board))
       /\ search(board, ai_player, s_depth, 0 - Inf, Inf, ai_player,
                 check_winner(board))
             = Minimax(board, ai_player, s_depth, ai_player, check_winner(board))

\* C11: the key of a board is the same for all boards that hold the same
\* position and for no other, whichever object holds it: each iteration of
\* the root loop finds its scratch board under a key of the cache exactly
\* when the score of that same position was stored before, and no position
\* is ever stored under two keys
C11_KeyIsThePosition ==
    [][ (pc = "search" /\ pc' = "search" /\ s_i' # s_i) =>
           \A k \in DOMAIN stored' :
              (stored'[k] = execute(DeepCopy(board), s_moves[s_i]))
                 <=> (k = prev_key') ]_vars

\* the boards a search of the given depth evaluates when nothing is cut off:
\* those reached by that many legal moves, the players moving in turn
RECURSIVE Leaves(_, _, _)
Leaves(b, player, depth) ==
    IF depth = 0 THEN {b}
    ELSE UNION {Leaves(execute(DeepCopy(b), m), opponent(player), depth - 1) :
                   m \in LegalOf(b, player)}

Weight(kind) ==
    CASE kind = "King" -> 1000 [] kind = "Queen" -> 9 [] kind = "Rook" -> 5
      [] kind = "Bishop" -> 3 [] kind = "Knight" -> 3 [] kind = "Pawn" -> 1

RECURSIVE Balance(_, _, _)
Balance(b, squares, me) ==
    IF squares = {} THEN 0
    ELSE LET sq == CHOOSE sq \in squares : TRUE
         IN (IF Get(b, sq).player = me THEN Weight(Get(b, sq).kind)
             ELSE 0 - Weight(Get(b, sq).kind))
            + Balance(b, squares \ {sq}, me)

\* the evaluation of a board by its own check_winner and its own material
Evaluation(b, me) ==
    IF check_winner(b) = NoResult THEN Balance(b, PiecesOn(b), me)
    ELSE IF check_winner(b).winner = me THEN 10000 ELSE 0 - 10000

\* C12: _evaluate_board depends on the board it is given and on the engine's
\* player only: it is +10000 when check_winner of that board names the
\* engine's player as winner, -10000 when check_winner of that board gives
\* any other result, and the material balance of that board otherwise
C12_EvaluatesTheBoardGiven ==
    (pc = "search" /\ s_depth >= 1) =>
       \A b \in Leaves(board, ai_player, s_depth) :
          evaluate_board(b, ai_player, check_winner(board)) = Evaluation(b, ai_player)

\* who is to move after that many moves of a search started by the engine
Mover(plies_in) == IF plies_in % 2 = 0 THEN ai_player ELSE opponent(ai_player)

\* windows _search is called with
Windows == {<<0 - Inf, Inf>>, <<0, Inf>>, <<0 - 5, 5>>}

\* C13: _search with a depth above 0, on a board where the player to move
\* has no legal move, returns the evaluation of that board, as a call with
\* depth 0 does, whatever alpha and beta it is given
C13_NoMoveGivesEvaluation ==
    (pc = "search" /\ s_depth >= 2) =>
       \A j \in 1..(s_depth - 1) : \A b \in Leaves(board, ai_player, j) :
          NoPieceCanMove(b, Mover(j)) = "True" =>
             \A w \in Windows :
                search(b, Mover(j), s_depth - j, w[1], w[2], ai_player,
                       check_winner(board))
                   = search(b, Mover(j), 0, w[1], w[2], ai_player,
                            check_winner(board))

\* the steps in which a call reads the board of the game and executes no
\* move on it: a list of legal moves, a question, a move_piece that raises
\* before it executes, and every step of get_best_move
ReadsOnly == plies' = plies

\* C14: listing the legal moves of a square, asking is_in_check,
\* is_in_checkmate, is_in_stalemate or check_winner and running get_best_move
\* at any depth leave every square of the board of the game as it was, kind,
\* player and is_moved, and leave current_player as it was; get_best_move
\* assigns nothing of the game.  The board changes only where move_piece
\* executes a move, the legal move asked for or the move the engine has
\* chosen, and then into the board that move gives
C14_QueriesLeaveTheBoard ==
    [][ /\ ReadsOnly => board' = board /\ current_player' = current_player
        /\ ReadsOnly /\ "search" \in {pc, pc'} =>
              UNCHANGED <<board, current_player, ai, ai_player, addresses, result>>
        /\ ~ReadsOnly =>
              IF pc = "search" THEN board' = execute(board, best_move)
              ELSE \E m \in LegalMoves(board, call_start') :
                      m.destination = call_end' /\ board' = execute(board, m)
      ]_vars

\* a game in which a move was executed and whose board, with a piece that has
\* not moved and has a legal move, was then read by a list of moves or a
\* question
C14_Witness ==
    /\ pc = "idle"
    /\ outcome \in {"listed", "answered"}
    /\ plies >= 1
    /\ \E pos \in PiecesOn(board) :
          ~Get(board, pos).is_moved /\ LegalMoves(board, pos) # {}

\* every move the piece on pos yields, pseudo-legal or legal, ends inside the
\* board, and so does the rook of a castling
EndsInside(m) ==
    /\ is_inside(m.destination)
    /\ m.type = "MoveCastling" => is_inside(m.rook_destination)

GeneratesInside(b, pos) ==
    /\ \A m \in SeqRange(PseudoMoves(pos[1], pos[2], b)) : EndsInside(m)
    /\ \A m \in LegalMoves(b, pos) : EndsInside(m)
    /\ ~possible_moves(pos[1], pos[2], b).exc

\* a move_piece call that has executed a move: one that returned, or that is
\* waiting for the engine
Accepted == plies > 0 /\ outcome \in {"ok", "result", "pending"}

\* C15: on every board of a game, arranged or reached, every move that the
\* generation of pseudo-legal and of legal moves yields has its destination,
\* and the rook's destination if it is a castling, inside the board; no
\* generator and no call raises an IndexError for a square outside the
\* board; and the end square of a move that move_piece has executed is
\* inside the board
C15_MovesStayInside ==
    /\ \A pos \in PiecesOn(board) : GeneratesInside(board, pos)
    /\ outcome # "IndexError"
    /\ Accepted => is_inside(call_end)

\* the squares on which a king of the player stands
Kings(b, player) ==
    {pos \in PiecesOn(b) : Get(b, pos) \in {Piece("King", player, m) : m \in BOOLEAN}}

\* C16: in a game from the standard initial position, with the engine or
\* without, as long as no move_piece call has returned a Result, each player
\* has exactly one king on the board
C16_OneKingEach ==
    result = NoResult =>
       \A player \in {"white", "black"} : Cardinality(Kings(board, player)) = 1

\* the caller has put the engine in check, the engine has replied, and the
\* call has returned nothing
C16_Witness ==
    /\ AIReplied
    /\ outcome = "ok"
    /\ call_board # initial
    /\ is_in_check(mid_board, ai_player) = "True"
====
